---- MODULE Spec2Model ----
(***************************************************************************)
(* The HR attrition dashboard of src/app.py as a state machine.           *)
(*                                                                         *)
(* The program is one Streamlit script.  Every user interaction re-runs   *)
(* the whole script from line 1 with the current widget values; the only  *)
(* state that survives a run is the st.cache_data memo of load_data and   *)
(* the widget values of the session.  A run either reaches line 155 or    *)
(* stops at the first line that raises.                                   *)
(*                                                                         *)
(* A cell of the table is a set with at most one element: {} is a missing *)
(* value (NaN), {v} is the value v.  Ages are kept in half years (60 is   *)
(* 30, 61 is 30.5), so that the int() of line 29 is a real truncation.    *)
(***************************************************************************)
EXTENDS Integers, Sequences, FiniteSets, TLC

VARIABLES csv, cache, df, selected_department, age_range, selected_gender,
          selected_features, filtered_df, attrition_rate, rendered,
          status, error_line

vars == <<csv, cache, df, selected_department, age_range, selected_gender,
          selected_features, filtered_df, attrition_rate, rendered,
          status, error_line>>

----------------------------------------------------------------------------
(* Bounds of the model *)

MaxRows == 2
MaxRateRows == 4
MaxSchemaRows == 1

----------------------------------------------------------------------------
(* Columns *)

NaN == {}

RequiredColumns == {"Age", "Attrition"}

FilterColumns == {"Department", "Gender"}

OtherColumns == {"Education", "YearsAtCompany", "MonthlyIncome", "MaritalStatus",
                 "JobRole", "YearsSinceLastPromotion", "YearsWithCurrManager"}

OptionalColumns == FilterColumns \cup OtherColumns

\* the columns whose cells read_csv parses as numbers
NumericColumns == {"Age", "YearsAtCompany", "MonthlyIncome",
                   "YearsSinceLastPromotion", "YearsWithCurrManager"}

\* the order of the columns in the header of the file
ColumnOrder == <<"Age", "Attrition", "Department", "Gender", "Education",
                 "YearsAtCompany", "MonthlyIncome", "MaritalStatus", "JobRole",
                 "YearsSinceLastPromotion", "YearsWithCurrManager">>

EmptyFrame == [columns |-> {}, numeric |-> {}, data |-> <<>>]

----------------------------------------------------------------------------
(* pandas *)

\* pd.read_csv: rows get the labels 0, 1, ... (a RangeIndex); a column of a
\* file without data rows has dtype object, whatever its name
read_csv(file) ==
    [columns |-> file.columns,
     numeric |-> IF file.rows = <<>> THEN {} ELSE file.columns \cap NumericColumns,
     data    |-> [i \in 1..Len(file.rows) |-> [label |-> i - 1, cells |-> file.rows[i]]]]

\* @st.cache_data load_data(): the file is read on the first call only
load_data(memo, file) == IF memo = <<>> THEN read_csv(file) ELSE memo[1]

\* frame[col] as the sequence of its cells
Column(frame, col) == [i \in 1..Len(frame.data) |-> frame.data[i].cells[col]]

RECURSIVE Unique(_)
\* Series.dropna().unique().tolist(): the values in order of first appearance
Unique(cells) ==
    IF cells = <<>> THEN <<>>
    ELSE LET rest == Unique(Tail(cells))
             keep(v) == Head(cells) # {v}
         IN IF Head(cells) = NaN THEN rest
            ELSE <<CHOOSE v \in Head(cells) : TRUE>> \o SelectSeq(rest, keep)

Range(s) == {s[i] : i \in DOMAIN s}

\* Series.min() skips missing values; {} stands for the NaN of an empty minimum
SeriesMin(cells) ==
    LET vals == UNION Range(cells)
    IN IF vals = {} THEN NaN ELSE {CHOOSE m \in vals : \A v \in vals : m <= v}

SeriesMax(cells) ==
    LET vals == UNION Range(cells)
    IN IF vals = {} THEN NaN ELSE {CHOOSE m \in vals : \A v \in vals : m >= v}

\* int(x) of a non-negative age kept in half years: truncation to whole years
ToInt(a) == a \div 2

\* isin as it would be if an empty selection meant no restriction
isinOrAll(cell, values) == values = <<>> \/ \E v \in cell : v \in Range(values)

\* Series.isin(values) on one cell: a missing value is in no list
isin(cell, values) == \E v \in cell : v \in Range(values)

\* (frame[col] >= bound) and (frame[col] <= bound) on one cell, the bound in whole
\* years: a comparison with a missing value is False
GreaterEqual(cell, bound) == \E v \in cell : v >= 2 * bound

\* the upper bound as it would be with < for <=
LessThan(cell, bound) == \E v \in cell : v < 2 * bound

LessEqual(cell, bound) == \E v \in cell : v <= 2 * bound

\* a boolean Series over the rows of frame, kept as the set of the labels it is True at
Mask(frame, test(_)) ==
    {frame.data[i].label : i \in {j \in 1..Len(frame.data) : test(frame.data[j].cells)}}

\* frame[mask.values]: the mask applied by position, not by label
BoolIndexByPosition(frame, mask) ==
    [frame EXCEPT !.data =
        LET at(i) == frame.data[i]
            positions == SelectSeq([i \in 1..Len(frame.data) |-> i], LAMBDA i : (i - 1) \in mask)
        IN [k \in 1..Len(positions) |-> at(positions[k])]]

\* frame[mask] with the rows coming out in reverse order
BoolIndexReversed(frame, mask) ==
    LET kept == SelectSeq(frame.data, LAMBDA r : r.label \in mask)
    IN [frame EXCEPT !.data = [k \in 1..Len(kept) |-> kept[Len(kept) + 1 - k]]]

\* frame[mask]: the rows whose label the mask is True at, in the order of the frame,
\* with their labels, columns and dtypes
BoolIndex(frame, mask) ==
    LET kept(r) == r.label \in mask
    IN [frame EXCEPT !.data = SelectSeq(frame.data, kept)]

\* DataFrame.copy()
copy(frame) == frame

\* frame.select_dtypes(include=['number']).columns
select_dtypes(frame) ==
    LET numeric(c) == c \in frame.numeric
    IN SelectSeq(ColumnOrder, numeric)

\* the denominator as it would be with the missing values counted
CountedAll(cells) == Len(cells)

\* the number of values Series.value_counts counts: the missing ones are dropped
Counted(cells) == Cardinality({i \in DOMAIN cells : cells[i] # NaN})

\* Series.value_counts(normalize=True) * 100, one entry per distinct value, as a
\* fixed-point number with four decimals (1000000 is 100 percent)
value_counts_percent(cells) ==
    LET count(v) == Cardinality({i \in DOMAIN cells : cells[i] = {v}})
    IN [v \in UNION Range(cells) |-> (count(v) * 1000000) \div Counted(cells)]

----------------------------------------------------------------------------
(* The script *)

\* line 26
DepartmentOptions(d) ==
    IF "Department" \in d.columns THEN Unique(Column(d, "Department")) ELSE <<>>

\* line 31
GenderOptions(d) ==
    IF "Gender" \in d.columns THEN Unique(Column(d, "Gender")) ELSE <<>>

\* line 29: int(df['Age'].min()) raises ValueError on the NaN of a column without
\* a value (an empty table, or every Age missing)
SliderRaises(d) == SeriesMin(Column(d, "Age")) = NaN

SliderMin(d) == ToInt(CHOOSE a \in SeriesMin(Column(d, "Age")) : TRUE)

SliderMax(d) == ToInt(CHOOSE a \in SeriesMax(Column(d, "Age")) : TRUE)

\* the values of the range slider of line 29
SliderValues(d) ==
    {r \in (SliderMin(d)..SliderMax(d)) \X (SliderMin(d)..SliderMax(d)) : r[1] <= r[2]}

\* the values of a multiselect over options: any selection, kept in option order
MultiselectValues(options) ==
    {SelectSeq(options, LAMBDA v : v \in S) : S \in SUBSET Range(options)}

\* lines 35-40
ApplyFilter(d, departments, genders, range) ==
    LET f0 == copy(d)
        inDepartments(cells) == isin(cells["Department"], departments)
        f1 == IF "Department" \in d.columns
              THEN BoolIndex(f0, Mask(f0, inDepartments)) ELSE f0
        inGenders(cells) == isin(cells["Gender"], genders)
        f2 == IF "Gender" \in d.columns
              THEN BoolIndex(f1, Mask(f1, inGenders)) ELSE f1
        inRange(cells) == GreaterEqual(cells["Age"], range[1]) /\ LessEqual(cells["Age"], range[2])
    IN BoolIndex(f2, Mask(f2, inRange))

\* line 49
AttritionRate(view) == value_counts_percent(Column(view, "Attrition"))

\* the guard of line 101 as it would be with > 0
HasCorrAny(numeric_cols) == Len(numeric_cols) > 0

\* line 101
HasCorr(numeric_cols) == Len(numeric_cols) > 1

\* line 109: default=numeric_cols[:3]
DefaultFeatures(numeric_cols) ==
    SubSeq(numeric_cols, 1, IF Len(numeric_cols) < 3 THEN Len(numeric_cols) ELSE 3)

\* lines 110-111: sns.pairplot(filtered_df[selected_features], hue='Attrition') looks
\* the hue column up in a frame of numeric columns only, where the text column
\* Attrition is not, and raises KeyError
PairplotRaises(features) == Len(features) >= 2

\* the memo as it would be if it shared one frame with the script and the filter
\* worked on that frame in place
MemoShared(loaded, view) == view

\* what st.cache_data keeps for the next run: a copy of what load_data returned,
\* which nothing the script does to df or filtered_df afterwards reaches
Memo(loaded, view) == loaded

\* the outputs of the script: the line that renders each, the columns the guard in
\* front of it asks for
Outputs ==
    {[name |-> "preview",  line |-> 22,  needs |-> {}],
     [name |-> "filtered", line |-> 43,  needs |-> {}],
     [name |-> "fig1",     line |-> 51,  needs |-> {}],
     [name |-> "fig2",     line |-> 56,  needs |-> {"Department"}],
     [name |-> "fig3",     line |-> 60,  needs |-> {}],
     [name |-> "fig4",     line |-> 65,  needs |-> {"Gender"}],
     [name |-> "fig5",     line |-> 70,  needs |-> {"Education"}],
     [name |-> "fig6",     line |-> 76,  needs |-> {"YearsAtCompany"}],
     [name |-> "fig7",     line |-> 80,  needs |-> {}],
     [name |-> "fig8",     line |-> 85,  needs |-> {"MonthlyIncome"}],
     [name |-> "table1",   line |-> 91,  needs |-> {"Department"}],
     [name |-> "table2",   line |-> 96,  needs |-> {"Gender"}],
     [name |-> "fig11",    line |-> 117, needs |-> {"MonthlyIncome", "Age"}],
     [name |-> "fig12",    line |-> 122, needs |-> {"Education", "MonthlyIncome"}],
     [name |-> "fig13",    line |-> 127, needs |-> {"YearsAtCompany", "MonthlyIncome"}],
     [name |-> "fig14",    line |-> 132, needs |-> {"MaritalStatus"}],
     [name |-> "fig15",    line |-> 137, needs |-> {"JobRole"}],
     [name |-> "fig16",    line |-> 142, needs |-> {"YearsSinceLastPromotion"}],
     [name |-> "fig17",    line |-> 147, needs |-> {"YearsWithCurrManager"}],
     [name |-> "table",    line |-> 150, needs |-> {}],
     [name |-> "download", line |-> 153, needs |-> {}]}

\* the line after the last one of the script
EndOfScript == 156

\* what a run that stops before line `stop` has rendered of a view with these columns
Rendered(columns, numeric_cols, stop) ==
    {o.name : o \in {p \in Outputs : p.line < stop /\ p.needs \subseteq columns}}
    \cup (IF 105 < stop /\ HasCorr(numeric_cols) THEN {"corr"} ELSE {})

\* one run of the script with the given widget values
Execute(departments, range, genders, features) ==
    LET d == load_data(cache, csv)
    IN /\ df' = d
       /\ selected_department' = departments
       /\ csv' = csv
       /\ IF SliderRaises(d)
          THEN /\ cache' = <<Memo(d, d)>>
               /\ status' = "error"
               /\ error_line' = 29
               /\ rendered' = Rendered(d.columns, <<>>, 29)
               /\ age_range' = <<0, 0>>
               /\ selected_gender' = <<>>
               /\ selected_features' = <<>>
               /\ filtered_df' = EmptyFrame
               /\ attrition_rate' = <<>>
          ELSE LET view == ApplyFilter(d, departments, genders, range)
                   numeric_cols == select_dtypes(view)
                   stop == IF PairplotRaises(features) THEN 111 ELSE EndOfScript
               IN /\ cache' = <<Memo(d, view)>>
                  /\ age_range' = range
                  /\ selected_gender' = genders
                  /\ selected_features' = features
                  /\ filtered_df' = view
                  /\ attrition_rate' = AttritionRate(view)
                  /\ rendered' = Rendered(view.columns, numeric_cols, stop)
                  /\ status' = IF stop = EndOfScript THEN "done" ELSE "error"
                  /\ error_line' = IF stop = EndOfScript THEN 0 ELSE stop

\* the first run of a session: every widget has its default value
FirstRun ==
    /\ status = "start"
    /\ LET d == load_data(cache, csv)
       IN Execute(DepartmentOptions(d),
                  IF SliderRaises(d) THEN <<0, 0>> ELSE <<SliderMin(d), SliderMax(d)>>,
                  GenderOptions(d),
                  DefaultFeatures(select_dtypes(d)))

\* Every change of one widget re-runs the script with the other widgets as they
\* are.  A run that stopped at line 29 has rendered the Department multiselect only.

\* the user changes the Department multiselect of line 27
ChangeDepartment ==
    /\ status # "start"
    /\ \E departments \in MultiselectValues(DepartmentOptions(df)) \ {selected_department} :
          Execute(departments, age_range, selected_gender, selected_features)

\* the user moves the Age slider of line 29
ChangeAgeRange ==
    /\ status # "start"
    /\ ~SliderRaises(df)
    /\ \E range \in SliderValues(df) \ {age_range} :
          Execute(selected_department, range, selected_gender, selected_features)

\* the user changes the Gender multiselect of line 32
ChangeGender ==
    /\ status # "start"
    /\ ~SliderRaises(df)
    /\ \E genders \in MultiselectValues(GenderOptions(df)) \ {selected_gender} :
          Execute(selected_department, age_range, genders, selected_features)

\* the user changes the pairplot multiselect of line 109
ChangeFeatures ==
    /\ status # "start"
    /\ ~SliderRaises(df)
    /\ \E features \in MultiselectValues(select_dtypes(filtered_df)) \ {selected_features} :
          Execute(selected_department, age_range, selected_gender, features)

Next == FirstRun \/ ChangeDepartment \/ ChangeAgeRange \/ ChangeGender \/ ChangeFeatures

----------------------------------------------------------------------------
(* The file data/EA.csv *)

\* one data row of a file with these columns; the cells of the columns no
\* computation reads hold a fixed value
Row(columns, department, gender, age, attrition) ==
    [c \in columns |->
        CASE c = "Department" -> department
          [] c = "Gender"     -> gender
          [] c = "Age"        -> age
          [] c = "Attrition"  -> attrition
          [] OTHER            -> {1}]

Rows(columns, departments, genders, ages, attritions) ==
    {Row(columns, d, g, a, t) : d \in departments, g \in genders, a \in ages, t \in attritions}

SeqsUpTo(S, n) == UNION {[1..k -> S] : k \in 0..n}

Files(schemas, departments, genders, ages, attritions, n) ==
    UNION {[columns : {RequiredColumns \cup S},
            rows : SeqsUpTo(Rows(RequiredColumns \cup S, departments, genders, ages, attritions), n)]
           : S \in schemas}

\* files that vary what the filter reads: Department and Gender present or not,
\* with missing values
FilterFiles ==
    Files(SUBSET FilterColumns, {NaN, {"Sales"}, {"HR"}}, {NaN, {"Male"}},
          {NaN, {60}, {62}}, {{"Yes"}}, MaxRows)

\* files that vary what the attrition rate reads, with whole and fractional ages
RateFiles ==
    Files({{}}, {NaN}, {NaN}, {{60}, {61}}, {NaN, {"Yes"}, {"No"}}, MaxRateRows)

\* files that vary the schema: any set of the optional columns
SchemaFiles ==
    Files(SUBSET OptionalColumns, {{"Sales"}}, {{"Male"}}, {{60}}, {{"Yes"}},
          MaxSchemaRows)

Init ==
    /\ csv \in FilterFiles \cup RateFiles \cup SchemaFiles
    /\ cache = <<>>
    /\ df = EmptyFrame
    /\ selected_department = <<>>
    /\ age_range = <<0, 0>>
    /\ selected_gender = <<>>
    /\ selected_features = <<>>
    /\ filtered_df = EmptyFrame
    /\ attrition_rate = <<>>
    /\ rendered = {}
    /\ status = "start"
    /\ error_line = 0

Spec == Init /\ [][Next]_vars

----------------------------------------------------------------------------
(* What the claims use *)

\* the last run got past the filter of lines 35-40
FilterRan == status # "start" /\ error_line # 29

Labels(frame) == {frame.data[i].label : i \in 1..Len(frame.data)}

Cells(frame) == [i \in 1..Len(frame.data) |-> frame.data[i].cells]

\* the value of the column is one of the selected values
Selected(row, col, selection) == row[col] \cap Range(selection) # {}

\* lo <= Age <= hi, the bounds in whole years and the ages in half years
AgeWithin(row, range) == \E a \in row["Age"] : 2 * range[1] <= a /\ a <= 2 * range[2]

\* the widgets have the values they have on the first run
WidgetsAtDefault ==
    /\ selected_department = DepartmentOptions(df)
    /\ selected_gender = GenderOptions(df)
    /\ age_range = <<SliderMin(df), SliderMax(df)>>

RECURSIVE IsSubsequence(_, _)
IsSubsequence(s, t) ==
    IF s = <<>> THEN TRUE
    ELSE IF t = <<>> THEN FALSE
    ELSE IF Head(s) = Head(t) THEN IsSubsequence(Tail(s), Tail(t))
    ELSE IsSubsequence(s, Tail(t))

RECURSIVE SumOf(_, _)
SumOf(f, S) ==
    IF S = {} THEN 0
    ELSE LET x == CHOOSE y \in S : TRUE IN f[x] + SumOf(f, S \ {x})

----------------------------------------------------------------------------
(* C1 *)

----------------------------------------------------------------------------
(* C2 *)

\* C2: with every offered Department and Gender selected and the age range set to
\* [min Age, max Age], the filtered view holds every record of the Dataset.
C2_DefaultIsNoOp ==
    (FilterRan /\ WidgetsAtDefault) => Cells(filtered_df) = Cells(df)

----------------------------------------------------------------------------
(* C3 *)

\* C3: filtering the filtered view again with the same FilterSpec gives the
\* filtered view back, same records in the same order.
C3_Idempotent ==
    FilterRan =>
        ApplyFilter(filtered_df, selected_department, selected_gender, age_range)
            = filtered_df

\* a view that kept some records and dropped others
C3_Witness ==
    /\ FilterRan
    /\ filtered_df.data # <<>>
    /\ Len(filtered_df.data) < Len(df.data)
    /\ filtered_df.data[1].label # 0

----------------------------------------------------------------------------
(* C4 *)

\* the FilterSpecs the widgets offer that are contained in the current one
MoreRestrictive ==
    {s \in [departments : MultiselectValues(selected_department),
            genders : MultiselectValues(selected_gender),
            range : SliderValues(df)] :
        age_range[1] <= s.range[1] /\ s.range[2] <= age_range[2]}

\* C4: a FilterSpec whose departments, genders and age range are contained in those
\* of another selects no more records than the other.
C4_Monotone ==
    FilterRan =>
        \A s \in MoreRestrictive :
            Len(ApplyFilter(df, s.departments, s.genders, s.range).data)
                <= Len(filtered_df.data)

\* a FilterSpec with a department deselected and a narrower age range that selects
\* fewer records
C4_Witness ==
    /\ FilterRan
    /\ \E s \in MoreRestrictive :
          /\ s.departments # <<>>
          /\ Len(s.departments) < Len(selected_department)
          /\ s.range # age_range
          /\ Len(ApplyFilter(df, s.departments, s.genders, s.range).data)
                < Len(filtered_df.data)

----------------------------------------------------------------------------
(* C5 *)

\* C5: after any sequence of runs, the Dataset the loader holds, and the one the
\* script works on, is the Dataset as it was read from the file.
C5_DatasetUnchanged ==
    status # "start" => cache = <<read_csv(csv)>> /\ df = read_csv(csv)

\* a run after a change of the Department selection whose view drops records
C5_Witness ==
    /\ FilterRan
    /\ selected_department # DepartmentOptions(df)
    /\ Len(filtered_df.data) < Len(df.data)
    /\ filtered_df.data # <<>>

----------------------------------------------------------------------------
(* C6 *)

\* C6: when the Dataset is empty, or the age range is inverted, the filter runs to
\* its end without an error and its result is an empty Dataset.
C6_EmptyInputGivesEmptyView ==
    (status # "start" /\ (csv.rows = <<>> \/ age_range[1] > age_range[2])) =>
        /\ FilterRan
        /\ "filtered" \in rendered
        /\ filtered_df.data = <<>>

----------------------------------------------------------------------------
(* C7 *)

\* C7: for a Dataset without some optional column, no run raises an error, the
\* outputs that need an absent column are not computed, every other output is, and
\* the filter applies no check on an absent Department or Gender column.
C7_AbsentColumnSkipped ==
    (status # "start" /\ ~(OptionalColumns \subseteq csv.columns)) =>
        /\ status = "done"
        /\ \A o \in Outputs : o.name \in rendered <=> o.needs \subseteq csv.columns
        /\ \A i \in 1..Len(df.data) :
              df.data[i].label \in Labels(filtered_df) <=>
                  /\ \/ "Department" \notin csv.columns
                     \/ Selected(df.data[i].cells, "Department", selected_department)
                  /\ \/ "Gender" \notin csv.columns
                     \/ Selected(df.data[i].cells, "Gender", selected_gender)
                  /\ AgeWithin(df.data[i].cells, age_range)

----------------------------------------------------------------------------
(* C8 *)

\* the sum of the percentages is 100 up to the rounding of each of them
SumsTo100 ==
    LET total == SumOf(attrition_rate, DOMAIN attrition_rate)
    IN 1000000 - Cardinality(DOMAIN attrition_rate) <= total /\ total <= 1000000

\* C8 as stated: for every non-empty filtered view the percentages of attritionRate
\* sum to 100, within rounding tolerance.
C8_NonEmptyViewSumsTo100 ==
    (FilterRan /\ filtered_df.data # <<>>) => SumsTo100

\* C8 as amended: for every filtered view with at least one record whose Attrition
\* value is not missing, the percentages of attritionRate sum to 100, within
\* rounding tolerance.
C8_RatesSumTo100 ==
    (FilterRan /\ \E i \in 1..Len(filtered_df.data) :
                     filtered_df.data[i].cells["Attrition"] # NaN) => SumsTo100

\* a view with a record without Attrition value and both Attrition values, in
\* unequal numbers
C8_Witness ==
    /\ FilterRan
    /\ DOMAIN attrition_rate = {"Yes", "No"}
    /\ attrition_rate["Yes"] # attrition_rate["No"]
    /\ \E i \in 1..Len(filtered_df.data) : filtered_df.data[i].cells["Attrition"] = NaN

----------------------------------------------------------------------------
(* C9 *)

\* C9: the filtered view has the schema of the Dataset, and its records are records
\* of the Dataset, unchanged, none more often than in the Dataset, in the order
\* they have in the Dataset.
C9_StableSubsequence ==
    FilterRan =>
        /\ filtered_df.columns = df.columns
        /\ filtered_df.numeric = df.numeric
        /\ IsSubsequence(Cells(filtered_df), Cells(df))

\* a view of two different records, with a record of the Dataset dropped
C9_Witness ==
    /\ FilterRan
    /\ Len(filtered_df.data) >= 2
    /\ Len(filtered_df.data) < Len(df.data)
    /\ filtered_df.data[1].cells # filtered_df.data[2].cells

----------------------------------------------------------------------------
(* C10 *)

\* C10 as stated: the correlation matrix is computed if and only if the view has at
\* least two numeric columns and at least one row.
C10_NoMatrixOfEmptyView ==
    FilterRan =>
        ("corr" \in rendered <=>
            ~(Cardinality(filtered_df.numeric) < 2 \/ filtered_df.data = <<>>))

\* C10 as amended: the correlation matrix is computed if and only if the view has at
\* least two numeric columns; a view without rows that has them gets a matrix too.
C10_MatrixIffTwoNumeric ==
    FilterRan => ("corr" \in rendered <=> Cardinality(filtered_df.numeric) >= 2)

\* a view without rows whose matrix is computed
C10_Witness ==
    /\ FilterRan
    /\ filtered_df.data = <<>>
    /\ "corr" \in rendered

====
